---- MODULE Spec2Model ----
(***************************************************************************)
(* Token lifecycle and request authorization of the HMCP server:           *)
(* hmcp/auth (AuthConfig, JWTHandler, OAuthServer, OAuthClient, utils) and *)
(* hmcp/mcpserver/fastmcp_auth.py (AuthMiddleware.dispatch).               *)
(*                                                                         *)
(* Strings the code inspects character by character (scope strings) are    *)
(* sequences of one-character strings; strings it only compares (client    *)
(* ids, secrets, patient ids, keys, messages) are TLA+ strings.            *)
(* Python's None is the value None below; "" is the empty string.          *)
(***************************************************************************)
EXTENDS Integers, Sequences, FiniteSets, TLC

VARIABLES now, ALLOWED_CLIENTS, oauth_clients, auth_codes, blacklisted_tokens,
          issued, revokeCalls, everExpired, registerLog, oauth_client,
          setTokenLog, log, last

vars == <<now, ALLOWED_CLIENTS, oauth_clients, auth_codes, blacklisted_tokens,
          issued, revokeCalls, everExpired, registerLog, oauth_client,
          setTokenLog, log, last>>

\* the fields of the OAuthClient object and the history kept about it
clientVars == <<oauth_client, setTokenLog>>

(* ------------------------------ bounds --------------------------------- *)
\* number of clock steps a behaviour may take
MaxTicks == 2
\* number of distinct tokens issued in a behaviour
MaxIssued == 1
\* number of (handler, token) entries in all revocation sets together
MaxRevoked == 1
\* length of a list of scopes handed to the scope analyzer
MaxScopes == 3

(* ------------------------- Python-level helpers ------------------------ *)
None == "<None>"

\* truth value of an Optional[str]: None and "" are falsy
Truthy(x) == x # None /\ x # ""

Whitespace == {" "}

startswith(s, prefix) ==
    Len(s) >= Len(prefix) /\ SubSeq(s, 1, Len(prefix)) = prefix

RECURSIVE SplitAcc(_, _, _)
SplitAcc(s, cur, acc) ==
    IF s = <<>>
    THEN IF cur = <<>> THEN acc ELSE Append(acc, cur)
    ELSE IF Head(s) \in Whitespace
         THEN SplitAcc(Tail(s), <<>>, IF cur = <<>> THEN acc ELSE Append(acc, cur))
         ELSE SplitAcc(Tail(s), Append(cur, Head(s)), acc)

\* str.split(): the words between runs of whitespace, in order
split(s) == SplitAcc(s, <<>>, <<>>)

Range(f) == {f[i] : i \in DOMAIN f}

\* sep.join(words)
RECURSIVE join(_, _)
join(sep, words) ==
    IF words = <<>> THEN <<>>
    ELSE IF Len(words) = 1 THEN Head(words)
    ELSE Head(words) \o sep \o join(sep, Tail(words))

(* ---------------------------- scope strings ---------------------------- *)
PatientPrefix == <<"p","a","t","i","e","n","t","/">>
HmcpAccess == <<"h","m","c","p",":","a","c","c","e","s","s">>
HmcpRead == <<"h","m","c","p",":","r","e","a","d">>
LaunchPatient == <<"l","a","u","n","c","h","/","p","a","t","i","e","n","t">>
PatientHmcpRead == PatientPrefix \o HmcpRead
Space == <<" ">>
HmcpWrite == <<"h","m","c","p",":","w","r","i","t","e">>
PatientHmcpWrite == PatientPrefix \o HmcpWrite
Openid == <<"o","p","e","n","i","d">>
Profile == <<"p","r","o","f","i","l","e">>
OfflineAccess == <<"o","f","f","l","i","n","e","_","a","c","c","e","s","s">>
ObservationRead ==
    <<"O","b","s","e","r","v","a","t","i","o","n",".","r","e","a","d">>
PatientObservationRead == PatientPrefix \o ObservationRead

(* ------------------------------ AuthConfig ----------------------------- *)
JWT_SECRET_KEY == "your-secure-jwt-secret"
JWT_ALGORITHM == "HS256"
TOKEN_EXPIRY_HOURS == 1
ISSUER == "HMCP_Server"
JWT_AUDIENCE == "https://hmcp-server.example.com"
OAUTH_TOKEN_URL == "/oauth/token"
OAUTH_SCOPES ==
    <<HmcpAccess, HmcpRead, HmcpWrite, PatientHmcpRead, PatientHmcpWrite,
      Openid, Profile, LaunchPatient, OfflineAccess>>

\* the registry AuthConfig() is built with when none is passed
DefaultAllowedClients ==
    [c \in {"test-client"} |-> [secret |-> "test-secret", scopes |-> <<HmcpAccess>>]]

\* a registry passed to AuthConfig(ALLOWED_CLIENTS=...) with a second client
CustomAllowedClients ==
    [c \in {"test-client", "c1"} |->
        IF c = "test-client"
        THEN [secret |-> "test-secret", scopes |-> <<HmcpAccess>>]
        ELSE [secret |-> "s1", scopes |-> <<HmcpAccess, PatientHmcpRead>>]]

Configs == {DefaultAllowedClients, CustomAllowedClients}

(* --------------------------- tokens and claims ------------------------- *)
\* the three JWTHandler objects of a server process
Handlers == {"oauth_server", "hmcp_server", "middleware"}

Payload(sub, aud, iat, exp, scope, patient) ==
    [iss |-> ISSUER, sub |-> sub, aud |-> aud, iat |-> iat, exp |-> exp,
     scope |-> scope, patient |-> patient]

\* pyjwt.encode: the compact string of a payload signed with a key
encode(payload, key) == [wf |-> TRUE, key |-> key, payload |-> payload]

\* a string that is not a three-part signed token
GarbageToken ==
    [wf |-> FALSE, key |-> "", payload |-> Payload(None, None, 0, 0, <<>>, None)]

\* a well-scoped token for a known client signed with another key
WrongKeyToken ==
    encode(Payload("test-client", JWT_AUDIENCE, 0, 360000, HmcpAccess, None),
           "attacker-key")

\* a token signed with the configured key for another audience
WrongAudToken ==
    encode(Payload("test-client", "https://other.example.com", 0,
                   TOKEN_EXPIRY_HOURS * 3600, HmcpAccess, None),
           JWT_SECRET_KEY)

ForgedTokens == {GarbageToken, WrongKeyToken, WrongAudToken}

\* tokens signed with the configured key for the configured audience by
\* another holder of the key: one without a sub claim, one whose sub is no
\* client of any registry
NoSubToken ==
    encode(Payload(None, JWT_AUDIENCE, 0, 360000, HmcpAccess, None), JWT_SECRET_KEY)

UnknownSubToken ==
    encode(Payload("ghost", JWT_AUDIENCE, 0, 360000, HmcpAccess, None),
           JWT_SECRET_KEY)

OtherIssuerTokens == {NoSubToken, UnknownSubToken}

(* ------------------------------ inputs --------------------------------- *)
ClientIds == {"test-client", "c1"}
\* a request path next to the issuance endpoint's
OtherOAuthPath == "/oauth/authorize"
Secrets == {"s1", "test-secret"}
PatientIds == {None, "", "p1"}
\* "hmcp:access", "hmcp:access  patient/hmcp:read" and "launch/patient"
ScopeStrings ==
    { HmcpAccess,
      HmcpAccess \o Space \o Space \o PatientHmcpRead,
      LaunchPatient }


(* ----------------------------- JWTHandler ------------------------------ *)
\* generate_token as it would be if the patient claim were added whenever a
\* patient id is passed, whatever the scopes
generate_token_PatientAlways(clients, t, client_id, scope, patient_id) ==
    IF client_id \notin DOMAIN clients
    THEN [ok |-> FALSE, error |-> "ClientValidationError",
          reason |-> "Client " \o client_id \o " is not registered"]
    ELSE [ok |-> TRUE,
          token |-> encode(Payload(client_id, JWT_AUDIENCE, t,
                                   t + TOKEN_EXPIRY_HOURS * 3600, scope,
                                   IF Truthy(patient_id) THEN patient_id ELSE None),
                           JWT_SECRET_KEY)]

\* JWTHandler.generate_token at clock t with registry clients; iat and exp
\* are the token's NumericDate claims, in whole seconds like the clock
generate_token(clients, t, client_id, scope, patient_id) ==
    IF client_id \notin DOMAIN clients
    THEN [ok |-> FALSE, error |-> "ClientValidationError",
          reason |-> "Client " \o client_id \o " is not registered"]
    ELSE LET hasPatientScope ==
                 \E i \in DOMAIN split(scope) : startswith(split(scope)[i], PatientPrefix)
             patient == IF Truthy(patient_id) /\ hasPatientScope
                        THEN patient_id ELSE None
         IN  [ok |-> TRUE,
              token |-> encode(Payload(client_id, JWT_AUDIENCE, t,
                                       t + TOKEN_EXPIRY_HOURS * 3600,
                                       scope, patient),
                               JWT_SECRET_KEY)]

\* decode as it would be without the signature check
decode_NoSignature(token, key, audience, t) ==
    IF ~token.wf THEN [ok |-> FALSE, exc |-> "DecodeError"]
    ELSE IF token.payload.exp <= t THEN [ok |-> FALSE, exc |-> "ExpiredSignatureError"]
    ELSE IF token.payload.aud = None
         THEN [ok |-> FALSE, exc |-> "MissingRequiredClaimError"]
    ELSE IF token.payload.aud # audience
         THEN [ok |-> FALSE, exc |-> "InvalidAudienceError"]
    ELSE [ok |-> TRUE, payload |-> token.payload]

\* decode as it would be if a token were still accepted at the instant exp
decode_ExpInclusive(token, key, audience, t) ==
    IF ~token.wf THEN [ok |-> FALSE, exc |-> "DecodeError"]
    ELSE IF token.key # key THEN [ok |-> FALSE, exc |-> "InvalidSignatureError"]
    ELSE IF token.payload.exp < t THEN [ok |-> FALSE, exc |-> "ExpiredSignatureError"]
    ELSE IF token.payload.aud = None
         THEN [ok |-> FALSE, exc |-> "MissingRequiredClaimError"]
    ELSE IF token.payload.aud # audience
         THEN [ok |-> FALSE, exc |-> "InvalidAudienceError"]
    ELSE [ok |-> TRUE, payload |-> token.payload]

\* decode as it would be if the audience were checked before the expiry
decode_AudFirst(token, key, audience, t) ==
    IF ~token.wf THEN [ok |-> FALSE, exc |-> "DecodeError"]
    ELSE IF token.key # key THEN [ok |-> FALSE, exc |-> "InvalidSignatureError"]
    ELSE IF token.payload.aud = None
         THEN [ok |-> FALSE, exc |-> "MissingRequiredClaimError"]
    ELSE IF token.payload.aud # audience
         THEN [ok |-> FALSE, exc |-> "InvalidAudienceError"]
    ELSE IF token.payload.exp <= t THEN [ok |-> FALSE, exc |-> "ExpiredSignatureError"]
    ELSE [ok |-> TRUE, payload |-> token.payload]

\* pyjwt.decode(token, key, algorithms=[HS256], audience=audience) at clock t:
\* structure and signature first, then exp (a token is expired from the
\* instant exp on), then aud
decode(token, key, audience, t) ==
    IF ~token.wf THEN [ok |-> FALSE, exc |-> "DecodeError"]
    ELSE IF token.key # key THEN [ok |-> FALSE, exc |-> "InvalidSignatureError"]
    ELSE IF token.payload.exp <= t THEN [ok |-> FALSE, exc |-> "ExpiredSignatureError"]
    ELSE IF token.payload.aud = None
         THEN [ok |-> FALSE, exc |-> "MissingRequiredClaimError"]
    ELSE IF token.payload.aud # audience
         THEN [ok |-> FALSE, exc |-> "InvalidAudienceError"]
    ELSE [ok |-> TRUE, payload |-> token.payload]

InvalidToken(reason) ==
    [ok |-> FALSE, error |-> "InvalidTokenError", reason |-> reason]

\* pyjwt exception classes that derive from pyjwt.InvalidTokenError
PyJwtInvalidTokenErrors ==
    {"DecodeError", "InvalidSignatureError", "ExpiredSignatureError",
     "InvalidAudienceError", "MissingRequiredClaimError"}

\* the try block as it would be without the look-up in blacklisted_tokens
VerifyBody_NoRevocation(blacklist, token, t) ==
    LET d == decode(token, JWT_SECRET_KEY, JWT_AUDIENCE, t)
    IN  IF d.ok THEN d ELSE [ok |-> FALSE, exc |-> d.exc, msg |-> d.exc]

\* the try block of JWTHandler.verify_token: what it returns or raises
VerifyBody(blacklist, token, t) ==
    IF token \in blacklist
    THEN [ok |-> FALSE, exc |-> "hmcp.InvalidTokenError",
          msg |-> "Token has been revoked"]
    ELSE LET d == decode(token, JWT_SECRET_KEY, JWT_AUDIENCE, t)
         IN  IF d.ok THEN d ELSE [ok |-> FALSE, exc |-> d.exc, msg |-> d.exc]

\* JWTHandler.verify_token of a handler whose revocation set is blacklist:
\* the try block followed by the except clauses in their order
verify_token(blacklist, token, t) ==
    LET r == VerifyBody(blacklist, token, t)
    IN  IF r.ok THEN [ok |-> TRUE, payload |-> r.payload]
        ELSE IF r.exc = "ExpiredSignatureError"
             THEN InvalidToken("Token has expired")
        ELSE IF r.exc = "InvalidAudienceError"
             THEN InvalidToken("Invalid token audience")
        ELSE IF r.exc \in PyJwtInvalidTokenErrors
             THEN InvalidToken("Invalid token")
        ELSE InvalidToken("Token verification failed: " \o r.msg)

(* ------------------------------- utils --------------------------------- *)
\* An Authorization header value is header.scheme followed by " " and a
\* credential for each element of header.creds; NoHeader is an absent one.
NoHeader == [present |-> FALSE, scheme |-> "", creds |-> <<>>]
Header(scheme, creds) == [present |-> TRUE, scheme |-> scheme, creds |-> creds]

\* the test as it would be if it were auth_header == ""
HeaderFalsy_EmptyOnly(h) == h.present /\ h.scheme = "" /\ h.creds = <<>>

\* "not auth_header": the header is None or the empty string
HeaderFalsy(h) == ~h.present \/ (h.scheme = "" /\ h.creds = <<>>)

\* utils.parse_auth_header
parse_auth_header(h) ==
    IF HeaderFalsy(h) \/ ~(h.scheme = "Bearer" /\ Len(h.creds) >= 1)
    THEN [ok |-> FALSE, error |-> "ValueError",
          reason |-> "Invalid Authorization header"]
    ELSE [ok |-> TRUE, token |-> h.creds[1]]

\* the loop of utils.analyze_scopes over the scopes left, from the values
\* acc of resource_scopes, has_patient_context and has_openid
RECURSIVE AnalyzeLoop(_, _)
AnalyzeLoop(scopes, acc) ==
    IF scopes = <<>> THEN acc
    ELSE LET scope == Head(scopes)
         IN  AnalyzeLoop(Tail(scopes),
                 IF scope = Openid
                 THEN [acc EXCEPT !.has_openid = TRUE]
                 ELSE IF startswith(scope, PatientPrefix)
                 THEN [acc EXCEPT !.has_patient_context = TRUE,
                                  !.resource_scopes =
                                      @ \cup {SubSeq(scope, 8 + 1, Len(scope))}]
                 ELSE IF scope \notin {Profile, OfflineAccess, LaunchPatient}
                 THEN [acc EXCEPT !.resource_scopes = @ \cup {scope}]
                 ELSE acc)

\* analyze_scopes as it would be without the test for "launch/patient"
\* after the loop
analyze_scopes_LoopOnly(scopes) ==
    AnalyzeLoop(scopes, [resource_scopes |-> {}, has_patient_context |-> FALSE,
                         has_openid |-> FALSE])

\* utils.analyze_scopes: the loop, then the test for "launch/patient"
analyze_scopes(scopes) ==
    LET r == AnalyzeLoop(scopes, [resource_scopes |-> {},
                                  has_patient_context |-> FALSE,
                                  has_openid |-> FALSE])
    IN  IF LaunchPatient \in Range(scopes)
        THEN [r EXCEPT !.has_patient_context = TRUE]
        ELSE r

\* requires_patient_context as it would be with the prefix test alone
requires_patient_context_PrefixOnly(scopes) ==
    \E i \in DOMAIN scopes : startswith(scopes[i], PatientPrefix)

\* utils.requires_patient_context
requires_patient_context(scopes) ==
    \/ \E i \in DOMAIN scopes : startswith(scopes[i], PatientPrefix)
    \/ LaunchPatient \in Range(scopes)

(* --------------------------- AuthMiddleware ---------------------------- *)
\* what the middleware hands back for one request:
\*   status, error   the JSON response (status 200 / error None: downstream's)
\*   next            call_next was invoked
\*   raised          an exception left dispatch
\*   parsed, verified   parse_auth_header / verify_token were invoked
\*   client_id, scopes, patient_id   what was attached to request.state
Outcome(status, error, next, raised, parsed, verified, client_id, scopes, patient_id) ==
    [status |-> status, error |-> error, next |-> next, raised |-> raised,
     parsed |-> parsed, verified |-> verified,
     client_id |-> client_id, scopes |-> scopes, patient_id |-> patient_id]

Deny(status, error, parsed, verified) ==
    Outcome(status, error, FALSE, FALSE, parsed, verified, None, <<>>, None)

\* the required-scope test as it would be with any() in place of all()
RequiredScopesPresent_Any(required_scopes, token_scopes) ==
    \E i \in DOMAIN required_scopes : required_scopes[i] \in Range(token_scopes)

\* all(scope in token_scopes for scope in required_scopes)
RequiredScopesPresent(required_scopes, token_scopes) ==
    \A i \in DOMAIN required_scopes : required_scopes[i] \in Range(token_scopes)

\* dispatch as it would be without the patient-context test
dispatch_NoPatientCheck(clients, blacklist, t, req) ==
    IF req.path = OAUTH_TOKEN_URL
    THEN IF req.downstream = "raise"
         THEN Outcome(0, "downstream error", TRUE, TRUE, FALSE, FALSE, None, <<>>, None)
         ELSE Outcome(200, None, TRUE, FALSE, FALSE, FALSE, None, <<>>, None)
    ELSE IF HeaderFalsy(req.header)
    THEN Deny(401, "No authorization header provided", FALSE, FALSE)
    ELSE LET p == parse_auth_header(req.header) IN
    IF ~p.ok
    THEN Deny(401, "Authentication failed: " \o p.reason, TRUE, FALSE)
    ELSE LET v == verify_token(blacklist, p.token, t) IN
    IF ~v.ok
    THEN Deny(401, "Authentication failed: " \o v.reason, TRUE, TRUE)
    ELSE LET client_id == v.payload.sub IN
    IF ~Truthy(client_id) \/ client_id \notin DOMAIN clients
    THEN Deny(401, "Invalid client ID", TRUE, TRUE)
    ELSE LET token_scopes == split(v.payload.scope)
             required_scopes == IF "scopes" \in DOMAIN clients[client_id]
                                THEN clients[client_id].scopes ELSE <<>>
         IN
    IF ~RequiredScopesPresent(required_scopes, token_scopes)
    THEN Deny(403, "Insufficient scope", TRUE, TRUE)
    ELSE LET patient_id == v.payload.patient
             has_patient_scopes ==
                 \E i \in DOMAIN token_scopes : startswith(token_scopes[i], PatientPrefix)
         IN
    IF FALSE
    THEN Deny(403, "Patient-context scopes require patient ID", TRUE, TRUE)
    ELSE IF req.downstream = "raise"
    THEN Outcome(401, "Authentication failed: " \o "downstream error", TRUE, FALSE,
                 TRUE, TRUE, client_id, token_scopes,
                 IF Truthy(patient_id) THEN patient_id ELSE None)
    ELSE Outcome(200, None, TRUE, FALSE, TRUE, TRUE, client_id, token_scopes,
                 IF Truthy(patient_id) THEN patient_id ELSE None)

\* dispatch as it would be if the client check only required a subject
dispatch_AnySubject(clients, blacklist, t, req) ==
    IF req.path = OAUTH_TOKEN_URL
    THEN IF req.downstream = "raise"
         THEN Outcome(0, "downstream error", TRUE, TRUE, FALSE, FALSE, None, <<>>, None)
         ELSE Outcome(200, None, TRUE, FALSE, FALSE, FALSE, None, <<>>, None)
    ELSE IF HeaderFalsy(req.header)
    THEN Deny(401, "No authorization header provided", FALSE, FALSE)
    ELSE LET p == parse_auth_header(req.header) IN
    IF ~p.ok
    THEN Deny(401, "Authentication failed: " \o p.reason, TRUE, FALSE)
    ELSE LET v == verify_token(blacklist, p.token, t) IN
    IF ~v.ok
    THEN Deny(401, "Authentication failed: " \o v.reason, TRUE, TRUE)
    ELSE LET client_id == v.payload.sub IN
    IF ~Truthy(client_id)
    THEN Deny(401, "Invalid client ID", TRUE, TRUE)
    ELSE LET token_scopes == split(v.payload.scope)
             required_scopes == IF client_id \in DOMAIN clients
                                THEN clients[client_id].scopes ELSE <<>>
         IN
    IF ~RequiredScopesPresent(required_scopes, token_scopes)
    THEN Deny(403, "Insufficient scope", TRUE, TRUE)
    ELSE LET patient_id == v.payload.patient
             has_patient_scopes ==
                 \E i \in DOMAIN token_scopes : startswith(token_scopes[i], PatientPrefix)
         IN
    IF has_patient_scopes /\ ~Truthy(patient_id)
    THEN Deny(403, "Patient-context scopes require patient ID", TRUE, TRUE)
    ELSE IF req.downstream = "raise"
    THEN Outcome(401, "Authentication failed: " \o "downstream error", TRUE, FALSE,
                 TRUE, TRUE, client_id, token_scopes,
                 IF Truthy(patient_id) THEN patient_id ELSE None)
    ELSE Outcome(200, None, TRUE, FALSE, TRUE, TRUE, client_id, token_scopes,
                 IF Truthy(patient_id) THEN patient_id ELSE None)

\* dispatch as it would be if every OAuth endpoint were exempt
dispatch_BypassOAuthPaths(clients, blacklist, t, req) ==
    IF req.path \in {OAUTH_TOKEN_URL, OtherOAuthPath}
    THEN IF req.downstream = "raise"
         THEN Outcome(0, "downstream error", TRUE, TRUE, FALSE, FALSE, None, <<>>, None)
         ELSE Outcome(200, None, TRUE, FALSE, FALSE, FALSE, None, <<>>, None)
    ELSE IF HeaderFalsy(req.header)
    THEN Deny(401, "No authorization header provided", FALSE, FALSE)
    ELSE LET p == parse_auth_header(req.header) IN
    IF ~p.ok
    THEN Deny(401, "Authentication failed: " \o p.reason, TRUE, FALSE)
    ELSE LET v == verify_token(blacklist, p.token, t) IN
    IF ~v.ok
    THEN Deny(401, "Authentication failed: " \o v.reason, TRUE, TRUE)
    ELSE LET client_id == v.payload.sub IN
    IF ~Truthy(client_id) \/ client_id \notin DOMAIN clients
    THEN Deny(401, "Invalid client ID", TRUE, TRUE)
    ELSE LET token_scopes == split(v.payload.scope)
             required_scopes == IF "scopes" \in DOMAIN clients[client_id]
                                THEN clients[client_id].scopes ELSE <<>>
         IN
    IF ~RequiredScopesPresent(required_scopes, token_scopes)
    THEN Deny(403, "Insufficient scope", TRUE, TRUE)
    ELSE LET patient_id == v.payload.patient
             has_patient_scopes ==
                 \E i \in DOMAIN token_scopes : startswith(token_scopes[i], PatientPrefix)
         IN
    IF has_patient_scopes /\ ~Truthy(patient_id)
    THEN Deny(403, "Patient-context scopes require patient ID", TRUE, TRUE)
    ELSE IF req.downstream = "raise"
    THEN Outcome(401, "Authentication failed: " \o "downstream error", TRUE, FALSE,
                 TRUE, TRUE, client_id, token_scopes,
                 IF Truthy(patient_id) THEN patient_id ELSE None)
    ELSE Outcome(200, None, TRUE, FALSE, TRUE, TRUE, client_id, token_scopes,
                 IF Truthy(patient_id) THEN patient_id ELSE None)

\* dispatch as it would be with the patient-context test before the
\* required-scope test
dispatch_PatientBeforeScopes(clients, blacklist, t, req) ==
    IF req.path = OAUTH_TOKEN_URL
    THEN IF req.downstream = "raise"
         THEN Outcome(0, "downstream error", TRUE, TRUE, FALSE, FALSE, None, <<>>, None)
         ELSE Outcome(200, None, TRUE, FALSE, FALSE, FALSE, None, <<>>, None)
    ELSE IF HeaderFalsy(req.header)
    THEN Deny(401, "No authorization header provided", FALSE, FALSE)
    ELSE LET p == parse_auth_header(req.header) IN
    IF ~p.ok
    THEN Deny(401, "Authentication failed: " \o p.reason, TRUE, FALSE)
    ELSE LET v == verify_token(blacklist, p.token, t) IN
    IF ~v.ok
    THEN Deny(401, "Authentication failed: " \o v.reason, TRUE, TRUE)
    ELSE LET client_id == v.payload.sub IN
    IF ~Truthy(client_id) \/ client_id \notin DOMAIN clients
    THEN Deny(401, "Invalid client ID", TRUE, TRUE)
    ELSE LET token_scopes == split(v.payload.scope)
             required_scopes == IF "scopes" \in DOMAIN clients[client_id]
                                THEN clients[client_id].scopes ELSE <<>>
             patient_id == v.payload.patient
             has_patient_scopes ==
                 \E i \in DOMAIN token_scopes : startswith(token_scopes[i], PatientPrefix)
         IN
    IF has_patient_scopes /\ ~Truthy(patient_id)
    THEN Deny(403, "Patient-context scopes require patient ID", TRUE, TRUE)
    ELSE IF ~RequiredScopesPresent(required_scopes, token_scopes)
    THEN Deny(403, "Insufficient scope", TRUE, TRUE)
    ELSE IF req.downstream = "raise"
    THEN Outcome(401, "Authentication failed: " \o "downstream error", TRUE, FALSE,
                 TRUE, TRUE, client_id, token_scopes,
                 IF Truthy(patient_id) THEN patient_id ELSE None)
    ELSE Outcome(200, None, TRUE, FALSE, TRUE, TRUE, client_id, token_scopes,
                 IF Truthy(patient_id) THEN patient_id ELSE None)

\* AuthMiddleware.dispatch for request req = [path, header, downstream], where
\* downstream says whether call_next returns a response or raises
dispatch(clients, blacklist, t, req) ==
    IF req.path = OAUTH_TOKEN_URL
    THEN IF req.downstream = "raise"
         THEN Outcome(0, "downstream error", TRUE, TRUE, FALSE, FALSE, None, <<>>, None)
         ELSE Outcome(200, None, TRUE, FALSE, FALSE, FALSE, None, <<>>, None)
    ELSE IF HeaderFalsy(req.header)
    THEN Deny(401, "No authorization header provided", FALSE, FALSE)
    ELSE LET p == parse_auth_header(req.header) IN
    IF ~p.ok
    THEN Deny(401, "Authentication failed: " \o p.reason, TRUE, FALSE)
    ELSE LET v == verify_token(blacklist, p.token, t) IN
    IF ~v.ok
    THEN Deny(401, "Authentication failed: " \o v.reason, TRUE, TRUE)
    ELSE LET client_id == v.payload.sub IN
    IF ~Truthy(client_id) \/ client_id \notin DOMAIN clients
    THEN Deny(401, "Invalid client ID", TRUE, TRUE)
    ELSE LET token_scopes == split(v.payload.scope)
             required_scopes == IF "scopes" \in DOMAIN clients[client_id]
                                THEN clients[client_id].scopes ELSE <<>>
         IN
    IF ~RequiredScopesPresent(required_scopes, token_scopes)
    THEN Deny(403, "Insufficient scope", TRUE, TRUE)
    ELSE LET patient_id == v.payload.patient
             has_patient_scopes ==
                 \E i \in DOMAIN token_scopes : startswith(token_scopes[i], PatientPrefix)
         IN
    IF has_patient_scopes /\ ~Truthy(patient_id)
    THEN Deny(403, "Patient-context scopes require patient ID", TRUE, TRUE)
    ELSE IF req.downstream = "raise"
    THEN Outcome(401, "Authentication failed: " \o "downstream error", TRUE, FALSE,
                 TRUE, TRUE, client_id, token_scopes,
                 IF Truthy(patient_id) THEN patient_id ELSE None)
    ELSE Outcome(200, None, TRUE, FALSE, TRUE, TRUE, client_id, token_scopes,
                 IF Truthy(patient_id) THEN patient_id ELSE None)

(* ----------------------------- OAuthServer ----------------------------- *)
AllowedScopeInputs == {None, <<PatientHmcpRead>>}

\* the entry OAuthServer.register_client stores for a client at clock t
ClientEntry(t, client_secret, redirect_uris, allowed_scopes) ==
    [secret |-> client_secret,
     created_at |-> t,
     redirect_uris |-> IF redirect_uris = None THEN <<>> ELSE redirect_uris,
     allowed_scopes |-> IF allowed_scopes = None \/ allowed_scopes = <<>>
                        THEN <<HmcpAccess>> ELSE allowed_scopes]

\* OAuthServer.validate_client against the registry oauth_clients: raises
\* for an unknown client, otherwise returns the result of the comparison
validate_client(clients, client_id, client_secret) ==
    IF client_id \notin DOMAIN clients
    THEN [ok |-> FALSE, error |-> "ClientValidationError",
          reason |-> "Invalid client ID"]
    ELSE [ok |-> TRUE, value |-> (clients[client_id].secret = client_secret)]

\* OAuthServer.create_token: the token response, or the issuer's error
create_token(clients, t, client_id, scope, patient_id) ==
    LET g == generate_token(clients, t, client_id, scope, patient_id)
    IN  IF ~g.ok THEN g
        ELSE [ok |-> TRUE,
              access_token |-> g.token,
              token_type |-> "Bearer",
              expires_in |-> TOKEN_EXPIRY_HOURS * 3600,
              scope |-> scope,
              patient |-> IF Truthy(patient_id) THEN patient_id ELSE None]

NotImplemented(reason) ==
    [ok |-> FALSE, error |-> "NotImplementedError", reason |-> reason]

\* create_authorization_code as it would be if it stored a code for the
\* client and returned it
create_authorization_code_Stores(codes, client_id, redirect_uri, scope, state) ==
    [result |-> [ok |-> TRUE, value |-> "code-" \o client_id],
     auth_codes |-> [c \in DOMAIN codes \cup {"code-" \o client_id} |->
                        [client_id |-> client_id, redirect_uri |-> redirect_uri,
                         scope |-> scope]]]

\* OAuthServer.create_authorization_code with the store auth_codes = codes:
\* what it returns or raises, and the store afterwards
create_authorization_code(codes, client_id, redirect_uri, scope, state) ==
    [result |-> NotImplemented("Authorization Code flow is not yet implemented"),
     auth_codes |-> codes]

\* OAuthServer.exchange_code_for_token
exchange_code_for_token(codes, client_id, client_secret, code, redirect_uri) ==
    [result |-> NotImplemented("Authorization Code flow is not yet implemented"),
     auth_codes |-> codes]

\* OAuthServer.create_id_token
create_id_token(client_id, user_id) ==
    NotImplemented("OpenID Connect is not yet implemented")

(* ----------------------------- OAuthClient ----------------------------- *)
\* OAuthClient.validate_client against the registry config.ALLOWED_CLIENTS:
\* returns None or raises
OAuthClient_validate_client(clients, client_id, client_secret) ==
    IF client_id \notin DOMAIN clients
    THEN [ok |-> FALSE, error |-> "ClientValidationError",
          reason |-> "Client " \o client_id \o " is not registered"]
    ELSE IF clients[client_id].secret # client_secret
    THEN [ok |-> FALSE, error |-> "ClientValidationError",
          reason |-> "Invalid client secret"]
    ELSE [ok |-> TRUE, value |-> None]

\* A token response is a dict: a function from its keys to their values.
\* NoDict is the None of a field that otherwise holds a dict.
NoDict == [none |-> TRUE]

\* marks a key left out of a dict
Absent == "<absent>"

\* the dict with token_type "Bearer" and the keys access_token, id_token
\* and patient, each left out if its value is Absent
TokenResponse(access_token, id_token, patient) ==
    LET value == [access_token |-> access_token, id_token |-> id_token,
                  patient |-> patient, token_type |-> "Bearer"]
    IN  [k \in {key \in DOMAIN value : value[key] # Absent} |-> value[k]]

\* the fields OAuthClient.__init__ sets before it calls validate_client
OAuthClientFields(client_id, client_secret) ==
    [client_id |-> client_id, client_secret |-> client_secret,
     access_token |-> None, id_token |-> None, token_response |-> NoDict,
     patient_id |-> None]

\* OAuthClient("test-client", "test-secret", config), which every
\* configuration accepts
NewOAuthClient == OAuthClientFields("test-client", "test-secret")

\* OAuthClient.create_token_request(scopes, patient_id) on the object with
\* fields client; scopes is a list of scopes or None
create_token_request(client, scopes, patient_id) ==
    LET requested_scopes ==
            IF scopes = None \/ scopes = <<>> THEN OAUTH_SCOPES ELSE scopes
        with_launch ==
            IF Truthy(patient_id)
               /\ ~\E i \in DOMAIN requested_scopes :
                       startswith(requested_scopes[i], PatientPrefix)
            THEN Append(requested_scopes, LaunchPatient)
            ELSE requested_scopes
    IN  [client_id |-> client.client_id,
         client_secret |-> client.client_secret,
         grant_type |-> "client_credentials",
         scope |-> join(Space, with_launch)]

\* OAuthClient.set_token on the object with fields client: whether it
\* returned, and the fields afterwards; token_response is assigned before
\* token_response['access_token'] is read
set_token(client, token_response) ==
    LET stored == [client EXCEPT !.token_response = token_response]
    IN  IF "access_token" \notin DOMAIN token_response
        THEN [ok |-> FALSE, error |-> "KeyError", client |-> stored]
        ELSE [ok |-> TRUE,
              client |-> [stored EXCEPT
                  !.access_token = token_response.access_token,
                  !.id_token = IF "id_token" \in DOMAIN token_response
                               THEN token_response.id_token ELSE @,
                  !.patient_id = IF "patient" \in DOMAIN token_response
                                 THEN token_response.patient ELSE @]]

\* get_auth_header as it would be if it tested access_token is None
get_auth_header_NoneOnly(client) ==
    IF client.access_token = None
    THEN [ok |-> FALSE, error |-> "AuthenticationError",
          reason |-> "Not authenticated"]
    ELSE [ok |-> TRUE,
          value |-> [Authorization |-> Header("Bearer", <<client.access_token>>)]]

\* OAuthClient.get_auth_header on the object with fields client
get_auth_header(client) ==
    IF ~Truthy(client.access_token)
    THEN [ok |-> FALSE, error |-> "AuthenticationError",
          reason |-> "Not authenticated"]
    ELSE [ok |-> TRUE,
          value |-> [Authorization |-> Header("Bearer", <<client.access_token>>)]]

(* ------------------------------- logging ------------------------------- *)
\* A log record: the source line of the logger call, its level, and what of
\* the following its message shows: client secrets, signing keys, complete
\* token strings. Client ids, scopes, claims, paths, reasons of failures and
\* the first 20 characters of a token or header are not recorded here.
LogRecord(at, level, client_secrets, signing_keys, tokens) ==
    [at |-> at, level |-> level, client_secrets |-> client_secrets,
     signing_keys |-> signing_keys, tokens |-> tokens]

\* a record that shows none of them
Plain(at, level) == LogRecord(at, level, {}, {}, {})

\* JWTHandler.__init__: logger.debug(f"... config: {config}"), the repr of
\* the AuthConfig dataclass with all its fields
JWTHandler_init_log(clients) ==
    {LogRecord("jwt_handler.py:14", "DEBUG",
               {clients[c].secret : c \in DOMAIN clients}, {JWT_SECRET_KEY}, {})}

\* the records of constructing the server's components with registry clients
ServerInitLog(clients) == JWTHandler_init_log(clients)

\* the logger calls of JWTHandler.generate_token
generate_token_log(clients, client_id) ==
    {Plain("jwt_handler.py:24", "DEBUG")}
    \cup IF client_id \notin DOMAIN clients
         THEN {Plain("jwt_handler.py:29", "ERROR")}
         ELSE {Plain("jwt_handler.py:47", "DEBUG"),
               Plain("jwt_handler.py:55", "DEBUG")}

\* the logger calls of JWTHandler.verify_token
verify_token_log(blacklist, token, t) ==
    LET r == VerifyBody(blacklist, token, t)
    IN  {Plain("jwt_handler.py:63", "DEBUG")}
        \cup IF r.ok THEN {Plain("jwt_handler.py:75", "DEBUG")}
             ELSE IF r.exc = "ExpiredSignatureError"
             THEN {Plain("jwt_handler.py:78", "ERROR")}
             ELSE IF r.exc = "InvalidAudienceError"
             THEN {Plain("jwt_handler.py:81", "ERROR")}
             ELSE IF r.exc \in PyJwtInvalidTokenErrors
             THEN {Plain("jwt_handler.py:84", "ERROR")}
             ELSE {Plain("jwt_handler.py:66", "ERROR"),
                   Plain("jwt_handler.py:87", "ERROR")}

\* the logger calls of AuthMiddleware.dispatch: the four at its start, the
\* second of which prints request.headers, then those of the steps taken
dispatch_log(clients, blacklist, t, req) ==
    LET r == dispatch(clients, blacklist, t, req)
        h == req.header
        start ==
            {Plain("fastmcp_auth.py:30", "DEBUG"),
             LogRecord("fastmcp_auth.py:31", "DEBUG", {}, {},
                       IF h.present /\ h.scheme = "Bearer"
                       THEN Range(h.creds) ELSE {}),
             Plain("fastmcp_auth.py:32", "DEBUG"),
             Plain("fastmcp_auth.py:33", "DEBUG")}
        parsing ==
            IF ~r.parsed THEN {}
            ELSE {Plain("fastmcp_auth.py:48", "DEBUG")}
                 \cup IF parse_auth_header(h).ok
                      THEN {Plain("fastmcp_auth.py:50", "DEBUG")}
                      ELSE {Plain("fastmcp_auth.py:107", "ERROR")}
        verifying ==
            IF ~r.verified THEN {}
            ELSE verify_token_log(blacklist, parse_auth_header(h).token, t)
                 \cup IF verify_token(blacklist, parse_auth_header(h).token, t).ok
                      THEN {Plain("fastmcp_auth.py:53", "DEBUG")}
                      ELSE {Plain("fastmcp_auth.py:95", "ERROR")}
        deciding ==
            IF req.path = OAUTH_TOKEN_URL THEN {}
            ELSE IF r.error = "No authorization header provided"
            THEN {Plain("fastmcp_auth.py:41", "ERROR")}
            ELSE IF r.error = "Invalid client ID"
            THEN {Plain("fastmcp_auth.py:58", "ERROR")}
            ELSE IF r.error = "Insufficient scope"
            THEN {Plain("fastmcp_auth.py:68", "ERROR")}
            ELSE IF r.error = "Patient-context scopes require patient ID"
            THEN {Plain("fastmcp_auth.py:80", "ERROR")}
            ELSE IF r.next
            THEN {Plain("fastmcp_auth.py:86", "INFO")}
                 \cup IF req.downstream = "raise"
                      THEN {Plain("fastmcp_auth.py:107", "ERROR")} ELSE {}
            ELSE {}
    IN  start \cup parsing \cup verifying \cup deciding

\* the logger calls of the script mcpclient/register_client.py, which builds
\* its own JWTHandler before it registers the client
register_client_log(clients, client_secret) ==
    JWTHandler_init_log(clients)
    \cup {LogRecord("register_client.py:18", "INFO", {client_secret}, {}, {}),
          Plain("register_client.py:20", "INFO")}

(* ------------------------------- state --------------------------------- *)
\* now                 the clock (datetime.utcnow(), in seconds)
\* ALLOWED_CLIENTS     AuthConfig.ALLOWED_CLIENTS (auth/config.py), the one
\*                     config object shared by every component
\* oauth_clients       OAuthServer.oauth_clients (auth/oauth_server.py)
\* blacklisted_tokens  JWTHandler.blacklisted_tokens of each handler
\*                     (auth/jwt_handler.py); a set per JWTHandler object
\* issued              the issuance requests served so far, each with the
\*                     token it was given (the tokens callers hold)
\* revokeCalls         history: the (handler, token) pairs revoke was called with
\* everExpired         history: the tokens a verify has reported as expired
\* registerLog         history: for each client_id register_client was called
\*                     with, the secret of the most recent of these calls
\* oauth_client        the fields of one OAuthClient object (auth/oauth_client.py)
\* setTokenLog         history: whether a set_token call has returned, and the
\*                     access token of the most recent one that did
\* auth_codes          OAuthServer.auth_codes (auth/oauth_server.py)
\* log                 the records the logger calls of the last operation made
\* last                the last operation, its inputs and its result

\* seconds the clock advances in one step: half of the token lifetime
TickSeconds == (TOKEN_EXPIRY_HOURS * 3600) \div 2

InitWith(configs) ==
    /\ now = 0
    /\ ALLOWED_CLIENTS \in configs
    /\ oauth_clients = << >>
    /\ auth_codes = << >>
    /\ blacklisted_tokens = [h \in Handlers |-> {}]
    /\ issued = {}
    /\ revokeCalls = {}
    /\ everExpired = {}
    /\ registerLog = << >>
    /\ oauth_client = NewOAuthClient
    /\ setTokenLog = [succeeded |-> FALSE, access_token |-> None]
    /\ log = ServerInitLog(ALLOWED_CLIENTS)
    /\ last = [op |-> "init"]

IssuedTokens == {r.token : r \in issued}

RevokedCount ==
    Cardinality({ht \in Handlers \X (IssuedTokens \cup ForgedTokens) :
                    ht[2] \in blacklisted_tokens[ht[1]]})

\* the clock moves on
Tick ==
    /\ now < MaxTicks * TickSeconds
    /\ now' = now + TickSeconds
    /\ last' = [op |-> "tick"]
    /\ log' = {}
    /\ UNCHANGED <<ALLOWED_CLIENTS, oauth_clients, blacklisted_tokens, issued,
                   revokeCalls, everExpired, registerLog, clientVars,
                       auth_codes>>

\* OAuthServer.register_client(client_id, client_secret, allowed_scopes=...)
RegisterClient ==
    \E client_id \in ClientIds, client_secret \in Secrets,
       allowed_scopes \in AllowedScopeInputs :
        /\ oauth_clients' =
               [c \in DOMAIN oauth_clients \cup {client_id} |->
                   IF c = client_id
                   THEN ClientEntry(now, client_secret, None, allowed_scopes)
                   ELSE oauth_clients[c]]
        /\ registerLog' =
               [c \in DOMAIN registerLog \cup {client_id} |->
                   IF c = client_id THEN client_secret ELSE registerLog[c]]
        /\ last' = [op |-> "register_client", client_id |-> client_id]
        /\ log' = {}
        /\ UNCHANGED <<now, ALLOWED_CLIENTS, blacklisted_tokens, issued,
                       revokeCalls, everExpired, clientVars, auth_codes>>

\* the script mcpclient/register_client.py: it builds an AuthConfig, an
\* OAuthServer and a JWTHandler of its own, registers CLIENT_ID with
\* CLIENT_SECRET in that OAuthServer, and ends
RegisterTestClient ==
    \E client_id \in ClientIds, client_secret \in Secrets :
        /\ last' = [op |-> "register_client.py", client_id |-> client_id,
                    client_secret |-> client_secret,
                    oauth_clients |->
                        [c \in {client_id} |->
                            ClientEntry(now, client_secret, None, None)]]
        /\ log' = register_client_log(DefaultAllowedClients, client_secret)
        /\ UNCHANGED <<now, ALLOWED_CLIENTS, oauth_clients, auth_codes,
                       blacklisted_tokens, issued, revokeCalls, everExpired,
                       registerLog, clientVars>>

\* OAuthServer.validate_client(client_id, client_secret)
ValidateClient ==
    \E client_id \in ClientIds, client_secret \in Secrets :
        /\ last' = [op |-> "validate_client", client_id |-> client_id,
                    client_secret |-> client_secret, before |-> oauth_clients,
                    result |-> validate_client(oauth_clients, client_id,
                                               client_secret)]
        /\ log' = {}
        /\ UNCHANGED <<now, ALLOWED_CLIENTS, oauth_clients, blacklisted_tokens,
                       issued, revokeCalls, everExpired, registerLog, clientVars,
                       auth_codes>>

\* OAuthClient(client_id, client_secret, config): the object exists only if
\* validate_client, called at the end of __init__, does not raise
ConstructClient ==
    \E client_id \in ClientIds, client_secret \in Secrets :
        LET r == OAuthClient_validate_client(ALLOWED_CLIENTS, client_id,
                                             client_secret)
        IN  /\ oauth_client' = IF r.ok
                               THEN OAuthClientFields(client_id, client_secret)
                               ELSE oauth_client
            /\ setTokenLog' = IF r.ok
                              THEN [succeeded |-> FALSE, access_token |-> None]
                              ELSE setTokenLog
            /\ last' = [op |-> "OAuthClient", client_id |-> client_id,
                        client_secret |-> client_secret,
                        registered |-> client_id \in DOMAIN registerLog,
                        result |-> r]
            /\ log' = {}
            /\ UNCHANGED <<now, ALLOWED_CLIENTS, oauth_clients,
                           blacklisted_tokens, issued, revokeCalls, everExpired,
                           registerLog, auth_codes>>

\* OAuthClient.set_token(token_response)
SetToken(responses) ==
    \E token_response \in responses :
        LET r == set_token(oauth_client, token_response)
        IN  /\ oauth_client' = r.client
            /\ setTokenLog' = IF r.ok
                              THEN [succeeded |-> TRUE,
                                    access_token |-> token_response.access_token]
                              ELSE setTokenLog
            /\ last' = [op |-> "set_token", token_response |-> token_response,
                        before |-> oauth_client, ok |-> r.ok,
                        header_before |-> get_auth_header(oauth_client)]
            /\ log' = {}
            /\ UNCHANGED <<now, ALLOWED_CLIENTS, oauth_clients,
                           blacklisted_tokens, issued, revokeCalls, everExpired,
                           registerLog, auth_codes>>

\* OAuthClient.create_token_request(scopes, patient_id)
CreateTokenRequest(scopeLists, patientIds) ==
    \E scopes \in scopeLists, patient_id \in patientIds :
        /\ last' = [op |-> "create_token_request", scopes |-> scopes,
                    patient_id |-> patient_id,
                    result |-> create_token_request(oauth_client, scopes,
                                                    patient_id)]
        /\ log' = {}
        /\ UNCHANGED <<now, ALLOWED_CLIENTS, oauth_clients, auth_codes,
                       blacklisted_tokens, issued, revokeCalls, everExpired,
                       registerLog, clientVars>>

\* OAuthClient.get_auth_header()
GetAuthHeader ==
    /\ last' = [op |-> "get_auth_header", before |-> oauth_client,
                result |-> get_auth_header(oauth_client)]
    /\ log' = {}
    /\ UNCHANGED <<now, ALLOWED_CLIENTS, oauth_clients, blacklisted_tokens,
                   issued, revokeCalls, everExpired, registerLog, clientVars,
                       auth_codes>>

\* what the Authorization Code and OpenID Connect entry points could change
ServerState ==
    [oauth_clients |-> oauth_clients, auth_codes |-> auth_codes,
     issued |-> issued, blacklisted_tokens |-> blacklisted_tokens]

RedirectUris == {"https://app.example.com/callback"}
Codes == {"code-c1", "code-unknown"}

\* OAuthServer.create_authorization_code(client_id, redirect_uri, scope, state)
CreateAuthorizationCode ==
    \E client_id \in ClientIds, redirect_uri \in RedirectUris,
       scope \in {HmcpAccess, Openid} :
        LET r == create_authorization_code(auth_codes, client_id, redirect_uri,
                                           scope, "state-1")
        IN  /\ auth_codes' = r.auth_codes
            /\ last' = [op |-> "create_authorization_code",
                        client_id |-> client_id, before |-> ServerState,
                        result |-> r.result]
            /\ log' = {}
            /\ UNCHANGED <<now, ALLOWED_CLIENTS, oauth_clients, blacklisted_tokens,
                           issued, revokeCalls, everExpired, registerLog,
                           clientVars>>

\* OAuthServer.exchange_code_for_token(client_id, client_secret, code,
\* redirect_uri)
ExchangeCodeForToken ==
    \E client_id \in ClientIds, client_secret \in Secrets, code \in Codes,
       redirect_uri \in RedirectUris :
        LET r == exchange_code_for_token(auth_codes, client_id, client_secret,
                                         code, redirect_uri)
        IN  /\ auth_codes' = r.auth_codes
            /\ last' = [op |-> "exchange_code_for_token",
                        client_id |-> client_id, before |-> ServerState,
                        result |-> r.result]
            /\ log' = {}
            /\ UNCHANGED <<now, ALLOWED_CLIENTS, oauth_clients, blacklisted_tokens,
                           issued, revokeCalls, everExpired, registerLog,
                           clientVars>>

\* OAuthServer.create_id_token(client_id, user_id)
CreateIdToken ==
    \E client_id \in ClientIds, user_id \in {"u1"} :
        /\ last' = [op |-> "create_id_token", client_id |-> client_id,
                    before |-> ServerState,
                    result |-> create_id_token(client_id, user_id)]
        /\ log' = {}
        /\ UNCHANGED <<now, ALLOWED_CLIENTS, oauth_clients, auth_codes,
                       blacklisted_tokens, issued, revokeCalls, everExpired,
                       registerLog, clientVars>>

\* OAuthServer.create_token(client_id, scope, patient_id), which issues
\* through JWTHandler.generate_token
CreateToken(clientIds, scopes, patientIds) ==
    \E client_id \in clientIds, scope \in scopes, patient_id \in patientIds :
        LET r == create_token(ALLOWED_CLIENTS, now, client_id, scope, patient_id)
            served == [client_id |-> client_id, scope |-> scope,
                       patient_id |-> patient_id, token |-> r.access_token]
        IN  /\ r.ok => (served \in issued \/ Cardinality(issued) < MaxIssued)
            /\ issued' = IF r.ok THEN issued \cup {served} ELSE issued
            /\ last' = [op |-> "create_token", client_id |-> client_id,
                        scope |-> scope, patient_id |-> patient_id, at |-> now,
                        registered |-> client_id \in DOMAIN oauth_clients,
                        result |-> r]
            /\ log' = generate_token_log(ALLOWED_CLIENTS, client_id)
            /\ UNCHANGED <<now, ALLOWED_CLIENTS, oauth_clients, blacklisted_tokens,
                           revokeCalls, everExpired, registerLog, clientVars,
                       auth_codes>>

\* revoke(token) on one handler: the token joins that handler's
\* blacklisted_tokens
Revoke ==
    \E h \in Handlers, token \in IssuedTokens \cup ForgedTokens :
        /\ token \in blacklisted_tokens[h] \/ RevokedCount < MaxRevoked
        /\ blacklisted_tokens' =
               [blacklisted_tokens EXCEPT ![h] = blacklisted_tokens[h] \cup {token}]
        /\ revokeCalls' = revokeCalls \cup {<<h, token>>}
        /\ last' = [op |-> "revoke", handler |-> h, token |-> token,
                    before |-> blacklisted_tokens[h]]
        /\ log' = {}
        /\ UNCHANGED <<now, ALLOWED_CLIENTS, oauth_clients, issued, everExpired, registerLog, clientVars,
                       auth_codes>>

\* JWTHandler.verify_token(token) on one handler
VerifyToken(handlers, forged) ==
    \E h \in handlers, token \in IssuedTokens \cup forged :
        LET r == verify_token(blacklisted_tokens[h], token, now)
        IN  /\ everExpired' = IF ~r.ok /\ r.reason = "Token has expired"
                              THEN everExpired \cup {token} ELSE everExpired
            /\ last' = [op |-> "verify_token", handler |-> h, token |-> token,
                        at |-> now, result |-> r]
            /\ log' = verify_token_log(blacklisted_tokens[h], token, now)
            /\ UNCHANGED <<now, ALLOWED_CLIENTS, oauth_clients, blacklisted_tokens,
                           issued, revokeCalls, registerLog, clientVars,
                       auth_codes>>

\* one request through AuthMiddleware.dispatch, which verifies with the
\* middleware's own handler
Dispatch(paths, headers, downstreams) ==
    \E path \in paths, header \in headers, downstream \in downstreams :
        LET req == [path |-> path, header |-> header, downstream |-> downstream]
        IN  /\ last' = [op |-> "dispatch", request |-> req, at |-> now,
                        result |-> dispatch(ALLOWED_CLIENTS,
                                            blacklisted_tokens["middleware"],
                                            now, req)]
            /\ log' = dispatch_log(ALLOWED_CLIENTS,
                                   blacklisted_tokens["middleware"], now, req)
            /\ UNCHANGED <<now, ALLOWED_CLIENTS, oauth_clients, blacklisted_tokens,
                           issued, revokeCalls, everExpired, registerLog, clientVars,
                       auth_codes>>

\* the server process is started again with one of the configurations: the
\* components are constructed anew, while the tokens issued stay with their
\* holders and the clock goes on
Restart(configs) ==
    \E config \in configs :
        /\ ALLOWED_CLIENTS' = config
        /\ oauth_clients' = << >>
        /\ registerLog' = << >>
        /\ blacklisted_tokens' = [h \in Handlers |-> {}]
        /\ auth_codes' = << >>
        /\ last' = [op |-> "restart"]
        /\ log' = ServerInitLog(config)
        /\ UNCHANGED <<now, issued, revokeCalls, everExpired, clientVars>>

Bearer(tokens) == {Header("Bearer", <<tok>>) : tok \in tokens}

(* ---- token lifecycle: issue, revoke, verify, request (default config) ---- *)
LifecycleHeaders ==
    {NoHeader, Header("Basic", <<GarbageToken>>)} \cup Bearer(IssuedTokens \cup ForgedTokens)

Init == InitWith({DefaultAllowedClients})

Next ==
    \/ Tick
    \/ CreateToken({"test-client"}, {HmcpAccess}, {None})
    \/ Revoke
    \/ VerifyToken(Handlers, ForgedTokens)
    \/ Dispatch({OAUTH_TOKEN_URL, "/sse"}, LifecycleHeaders, {"return"})

Spec == Init /\ [][Next]_vars

(* ---- issuance and scopes: every scope string and patient id ---- *)
InitIssuance == InitWith(Configs)

NextIssuance ==
    \/ Tick
    \/ CreateToken(ClientIds, ScopeStrings, PatientIds)
    \/ VerifyToken({"middleware"}, {})
    \/ Dispatch({"/sse"}, Bearer(IssuedTokens), {"return"})

SpecIssuance == InitIssuance /\ [][NextIssuance]_vars

(* ---- registration: OAuthServer's registry against the issuer's ---- *)
InitRegistry == InitWith(Configs)

NextRegistry ==
    \/ Tick
    \/ RegisterClient
    \/ CreateToken(ClientIds, {HmcpAccess}, {None})
    \/ Dispatch({"/sse"}, Bearer(IssuedTokens), {"return"})

SpecRegistry == InitRegistry /\ [][NextRegistry]_vars

(* ---- the request-time decision: every kind of header, path and token ---- *)
\* "patient/hmcp:read" and "hmcp:access patient/hmcp:read"
DecisionScopes == {PatientHmcpRead, HmcpAccess \o Space \o PatientHmcpRead}

\* no header, "", "Basic <x>", "Bearer", "bearer <x>" and "Bearer <token>"
DecisionHeaders ==
    {NoHeader, Header("", <<>>), Header("Basic", <<GarbageToken>>),
     Header("Bearer", <<>>), Header("bearer", <<WrongKeyToken>>)}
    \cup Bearer(IssuedTokens \cup OtherIssuerTokens \cup {WrongKeyToken})

DecisionPaths == {OAUTH_TOKEN_URL, OtherOAuthPath, "/sse"}

InitDecision == InitWith(Configs)

NextDecision ==
    \/ Tick
    \/ CreateToken(ClientIds, DecisionScopes, {None, "p1"})
    \/ Restart(Configs)
    \/ Dispatch(DecisionPaths, DecisionHeaders, {"return"})

SpecDecision == InitDecision /\ [][NextDecision]_vars

(* ---- the credential store: register_client against validate_client ---- *)
InitStore == InitWith(Configs)

NextStore ==
    \/ Tick
    \/ RegisterClient
    \/ ValidateClient
    \/ ConstructClient

SpecStore == InitStore /\ [][NextStore]_vars

(* ---- scope analysis: the two functions of utils on lists of scopes ---- *)
\* "openid", "profile", "offline_access", "launch/patient",
\* "patient/Observation.read", "hmcp:access", "patient/" and
\* "patient/launch/patient"
AnalysisScopes ==
    {Openid, Profile, OfflineAccess, LaunchPatient, PatientObservationRead,
     HmcpAccess, PatientPrefix, PatientPrefix \o LaunchPatient}

ScopeLists == UNION {[1..n -> AnalysisScopes] : n \in 0..MaxScopes}

\* the list of scopes a caller holds
InitScopes ==
    /\ now = 0
    /\ ALLOWED_CLIENTS = DefaultAllowedClients
    /\ oauth_clients = << >>
    /\ blacklisted_tokens = [h \in Handlers |-> {}]
    /\ issued = {}
    /\ revokeCalls = {}
    /\ everExpired = {}
    /\ registerLog = << >>
    /\ oauth_client = NewOAuthClient
    /\ setTokenLog = [succeeded |-> FALSE, access_token |-> None]
    /\ auth_codes = << >>
    /\ log = {}
    /\ last \in {[op |-> "scopes", scopes |-> l] : l \in ScopeLists}

\* utils.analyze_scopes(scopes) on the caller's list
AnalyzeScopes ==
    /\ last.op \in {"scopes", "analyze_scopes", "requires_patient_context"}
    /\ last' = [op |-> "analyze_scopes", scopes |-> last.scopes,
                result |-> analyze_scopes(last.scopes)]
    /\ log' = {}
    /\ UNCHANGED <<now, ALLOWED_CLIENTS, oauth_clients, blacklisted_tokens,
                   issued, revokeCalls, everExpired, registerLog, clientVars,
                       auth_codes>>

\* utils.requires_patient_context(scopes) on the caller's list
RequiresPatientContext ==
    /\ last.op \in {"scopes", "analyze_scopes", "requires_patient_context"}
    /\ last' = [op |-> "requires_patient_context", scopes |-> last.scopes,
                result |-> requires_patient_context(last.scopes)]
    /\ log' = {}
    /\ UNCHANGED <<now, ALLOWED_CLIENTS, oauth_clients, blacklisted_tokens,
                   issued, revokeCalls, everExpired, registerLog, clientVars,
                       auth_codes>>

NextScopes ==
    \/ AnalyzeScopes
    \/ RequiresPatientContext

SpecScopes == InitScopes /\ [][NextScopes]_vars

(* ---- the client-side cache: set_token against get_auth_header ---- *)
TokenResponses ==
    {TokenResponse(a, i, p) : a \in {Absent, None, "", "tokA", "tokB"},
                              i \in {Absent, "idA"}, p \in {Absent, "p1"}}

InitCache == InitWith({DefaultAllowedClients})

NextCache ==
    \/ ConstructClient
    \/ SetToken(TokenResponses)
    \/ GetAuthHeader

SpecCache == InitCache /\ [][NextCache]_vars

(* ---- the flows that are not implemented, next to the one that is ---- *)
InitFlows == InitWith(Configs)

NextFlows ==
    \/ RegisterClient
    \/ CreateToken(ClientIds, {HmcpAccess}, {None})
    \/ CreateAuthorizationCode
    \/ ExchangeCodeForToken
    \/ CreateIdToken

SpecFlows == InitFlows /\ [][NextFlows]_vars

(* ---- what the components write to the log ---- *)
InitLogging == InitWith(Configs)

NextLogging ==
    \/ Tick
    \/ RegisterTestClient
    \/ CreateToken(ClientIds, {HmcpAccess}, {None})
    \/ VerifyToken({"middleware"}, {WrongKeyToken})
    \/ Dispatch({OAUTH_TOKEN_URL, "/sse"},
                {NoHeader} \cup Bearer(IssuedTokens \cup {WrongKeyToken}),
                {"return"})

SpecLogging == InitLogging /\ [][NextLogging]_vars

(* ---- from the client's token request to the downstream handler ---- *)
\* None (the configured scopes), ["hmcp:access"] and
\* ["hmcp:access", "patient/hmcp:read"]
RequestScopeLists == {None, <<HmcpAccess>>, <<HmcpAccess, PatientHmcpRead>>}

\* the scope strings of the token requests the client builds from a list of
\* its own: "hmcp:access", "hmcp:access launch/patient" and
\* "hmcp:access patient/hmcp:read"
RequestedScopeStrings ==
    {create_token_request(NewOAuthClient, scopes, patient_id).scope :
        scopes \in {<<HmcpAccess>>, <<HmcpAccess, PatientHmcpRead>>},
        patient_id \in {None, "p1"}}

InitDownstream == InitWith({DefaultAllowedClients})

NextDownstream ==
    \/ Tick
    \/ CreateTokenRequest(RequestScopeLists, {None, "p1"})
    \/ CreateToken({"test-client"}, RequestedScopeStrings, {None, "p1"})
    \/ Dispatch({OAUTH_TOKEN_URL, "/sse"}, {NoHeader} \cup Bearer(IssuedTokens),
                {"return", "raise"})

SpecDownstream == InitDownstream /\ [][NextDownstream]_vars

(* ------------------------------ properties ----------------------------- *)
\* the header is "Bearer <token>..." and the token is what follows "Bearer "
IsBearer(h) == h.present /\ h.scheme = "Bearer" /\ Len(h.creds) >= 1
BearerToken(h) == h.creds[1]

LastIsRequest ==
    last.op = "dispatch" /\ last.request.path # OAUTH_TOKEN_URL

LastIsBearerRequest == LastIsRequest /\ IsBearer(last.request.header)

Lifetime == TOKEN_EXPIRY_HOURS * 3600

\* the four conditions of a valid token, against a revocation set, at time t
TokenPasses(token, blacklist, t) ==
    /\ token.wf /\ token.key = JWT_SECRET_KEY
    /\ t < token.payload.exp
    /\ token.payload.aud = JWT_AUDIENCE
    /\ token \notin blacklist

\* the reason the handler gives for a revoked token
RevokedReason == "Token verification failed: Token has been revoked"

VerifyFailureBodies ==
    {"Authentication failed: " \o r :
        r \in {"Invalid token", "Token has expired", "Invalid token audience",
               RevokedReason}}

\* C1: a request to a non-issuance path reaches downstream logic only if its
\* bearer token is signed with the configured key, unexpired, made for the
\* configured audience and absent from the revocation set of the middleware's
\* verifier at that moment; a bearer token failing any of these is answered
\* 401 "Authentication failed: ..." and downstream is not called, whatever
\* scopes the token carries.
C1_AllowOnlyVerified ==
    LastIsRequest =>
        LET h == last.request.header
            passes == IsBearer(h) /\ TokenPasses(BearerToken(h),
                                                 blacklisted_tokens["middleware"],
                                                 last.at)
        IN  /\ last.result.next => passes
            /\ (IsBearer(h) /\ ~passes) =>
                   /\ last.result.status = 401
                   /\ last.result.error \in VerifyFailureBodies
                   /\ ~last.result.next

\* a forged token with the scopes the client needs was presented and refused
C1_Witness ==
    /\ LastIsBearerRequest
    /\ BearerToken(last.request.header) = WrongKeyToken
    /\ RequiredScopesPresent(ALLOWED_CLIENTS[WrongKeyToken.payload.sub].scopes,
                             split(WrongKeyToken.payload.scope))
    /\ last.result.status = 401
    /\ ~last.result.next

C3_SharedRevocationSet ==
    (LastIsBearerRequest
       /\ \E h \in Handlers : BearerToken(last.request.header) \in blacklisted_tokens[h])
    => (~last.result.next /\ last.result.status = 401)

\* C7: an issued token with issued_at = t0 that the verifying handler has not
\* revoked verifies at every instant before t0 + H, fails as expired at every
\* instant from t0 + H on, and never verifies after it was reported expired.
C7_ExpiryMonotone ==
    (last.op = "verify_token" /\ last.token \in IssuedTokens
       /\ last.token \notin blacklisted_tokens[last.handler]) =>
        LET t0 == last.token.payload.iat
        IN  /\ last.at < t0 + Lifetime =>
                   (last.result.ok /\ last.token \notin everExpired)
            /\ last.at >= t0 + Lifetime =>
                   (~last.result.ok /\ last.result.reason = "Token has expired")

\* an issued token is verified at the very instant t0 + H and is expired
C7_Witness ==
    /\ last.op = "verify_token"
    /\ last.token \in IssuedTokens
    /\ last.token \notin blacklisted_tokens[last.handler]
    /\ last.at = last.token.payload.iat + Lifetime
    /\ ~last.result.ok /\ last.result.reason = "Token has expired"

\* the failure of the first failing check, in the order revocation,
\* signature/structure, expiry, audience (None: every check passes)
FirstFailure(token, blacklist, t, revoked) ==
    IF token \in blacklist THEN revoked
    ELSE IF ~token.wf \/ token.key # JWT_SECRET_KEY THEN "Invalid token"
    ELSE IF token.payload.exp <= t THEN "Token has expired"
    ELSE IF token.payload.aud # JWT_AUDIENCE THEN "Invalid token audience"
    ELSE None

\* C8: verify reports the failure of the earliest failing check in the order
\* revocation, signature/structural decode, expiry, audience; a revoked token
\* is reported as revoked even if it is malformed, expired or has the wrong
\* audience.
C8_VerifyOrder ==
    last.op = "verify_token" =>
        LET f == FirstFailure(last.token, blacklisted_tokens[last.handler],
                              last.at, RevokedReason)
        IN  IF f = None THEN last.result.ok
            ELSE ~last.result.ok /\ last.result.reason = f

\* a token that is both expired and made for another audience is reported
\* as expired
C8_Witness ==
    /\ last.op = "verify_token"
    /\ last.token.wf /\ last.token.key = JWT_SECRET_KEY
    /\ last.token \notin blacklisted_tokens[last.handler]
    /\ last.token.payload.exp <= last.at
    /\ last.token.payload.aud # JWT_AUDIENCE
    /\ ~last.result.ok /\ last.result.reason = "Token has expired"

\* C9: verify returns the claims or fails with InvalidTokenError, and the
\* reason is "Token has been revoked" for a revoked token, "Token has
\* expired" for an expired one, "Invalid token audience" for a wrong
\* audience and "Invalid token" for any other decode or signature failure.
C9_FailureReasons ==
    last.op = "verify_token" =>
        LET f == FirstFailure(last.token, blacklisted_tokens[last.handler],
                              last.at, "Token has been revoked")
        IN  IF f = None THEN last.result.ok
            ELSE /\ ~last.result.ok
                 /\ last.result.error = "InvalidTokenError"
                 /\ last.result.reason = f

\* C4: issue returns a token if the client was registered in the
\* Credential Store by register, and fails with ClientValidationError,
\* producing no token, if it was not.
C4_IssueIffRegistered ==
    last.op = "create_token" =>
        IF last.registered
        THEN last.result.ok
        ELSE ~last.result.ok /\ last.result.error = "ClientValidationError"

\* some space-separated word of the scope string starts with "patient/"
HasPatientWord(scope) ==
    \E i \in DOMAIN split(scope) : startswith(split(scope)[i], PatientPrefix)

\* the round trip of a served request r through a verify of its token: the
\* token verifies while unexpired, and the claims returned carry the
\* request's client and scope, and its patient id iff supplied(r.patient_id)
\* holds and the scope has a "patient/" word
RoundTrip(r, supplied) ==
    (/\ last.op = "verify_token"
     /\ last.token = r.token
     /\ last.at < r.token.payload.iat + Lifetime) =>
        /\ last.result.ok
        /\ last.result.payload.sub = r.client_id
        /\ last.result.payload.scope = r.scope
        /\ (last.result.payload.patient # None
              /\ last.result.payload.patient = r.patient_id)
             <=> (supplied /\ HasPatientWord(r.scope))

\* C5 as stated: verify(issue(client_id, scope, patient_id)) before expiry
\* returns subject = client_id, scope = scope, and patient = patient_id iff
\* patient_id is non-null and some word of scope starts with "patient/".
C5_RoundTripNonNull ==
    \A r \in issued : RoundTrip(r, r.patient_id # None)

\* C5 as amended: the same, with patient = patient_id iff patient_id is
\* neither null nor the empty string and some word of scope starts with
\* "patient/".
C5_RoundTrip ==
    \A r \in issued : RoundTrip(r, Truthy(r.patient_id))

\* a token issued with a patient id for a "patient/" scope is verified at a
\* later instant and the claims carry that patient id
C5_Witness ==
    /\ last.op = "verify_token"
    /\ last.token \in IssuedTokens
    /\ last.token.payload.iat < last.at
    /\ last.result.ok
    /\ last.result.payload.patient = "p1"
    /\ HasPatientWord(last.result.payload.scope)

\* C6: the claims of an issued token carry a patient claim iff some
\* requested scope begins with "patient/" or equals "launch/patient", and a
\* patient identifier was supplied at issuance.
C6_PatientClaimIff ==
    (last.op = "create_token" /\ last.result.ok) =>
        ((last.result.access_token.payload.patient # None)
           <=> (/\ \/ HasPatientWord(last.scope)
                   \/ LaunchPatient \in Range(split(last.scope))
                /\ Truthy(last.patient_id)))

\* the last request bore a token that verifies, of a client of the registry
LastIsVerifiedClientRequest ==
    /\ LastIsBearerRequest
    /\ TokenPasses(BearerToken(last.request.header),
                   blacklisted_tokens["middleware"], last.at)
    /\ BearerToken(last.request.header).payload.sub \in DOMAIN ALLOWED_CLIENTS

\* some scope configured for the token's client is not among the token's
MissingRequiredScope(token) ==
    \E i \in DOMAIN ALLOWED_CLIENTS[token.payload.sub].scopes :
        ALLOWED_CLIENTS[token.payload.sub].scopes[i]
            \notin Range(split(token.payload.scope))

LastIsVerifiedRequest ==
    /\ LastIsBearerRequest
    /\ TokenPasses(BearerToken(last.request.header),
                   blacklisted_tokens["middleware"], last.at)

\* a granted scope starts with "patient/" and there is no patient claim
LacksPatientContext(token) ==
    HasPatientWord(token.payload.scope) /\ token.payload.patient = None

\* for a request satisfying pre whose token lacks its patient context the
\* answer is 403 "Patient-context scopes require patient ID" and downstream
\* is not called; a request let through has the token's patient claim as
\* the patient_id of request.state
PatientContextLaw(pre) ==
    LastIsVerifiedRequest =>
        LET token == BearerToken(last.request.header)
        IN  /\ (pre /\ LacksPatientContext(token)) =>
                   /\ last.result.status = 403
                   /\ last.result.error = "Patient-context scopes require patient ID"
                   /\ ~last.result.next
            /\ last.result.next =>
                   /\ last.result.patient_id = token.payload.patient
                   /\ last.result.client_id = token.payload.sub
                   /\ last.result.scopes = split(token.payload.scope)

\* C11 as stated: a request whose verified token has a scope starting with
\* "patient/" but carries no patient claim is denied with 403 for the missing
\* patient context; when a request is let through, the token's patient claim
\* is attached as patient_id.
C11_PatientContextAnyRequest == PatientContextLaw(TRUE)

\* C11 as amended: the same for a request whose verified token has passed the
\* client check and the required-scope check.
C11_PatientContext ==
    PatientContextLaw(
        /\ BearerToken(last.request.header).payload.sub \in DOMAIN ALLOWED_CLIENTS
        /\ ~MissingRequiredScope(BearerToken(last.request.header)))

\* a verified token with every required scope and a "patient/" scope but no
\* patient claim is refused with 403, and downstream is not called
C11_Witness ==
    /\ LastIsVerifiedClientRequest
    /\ ~MissingRequiredScope(BearerToken(last.request.header))
    /\ LacksPatientContext(BearerToken(last.request.header))
    /\ last.result.status = 403
    /\ last.result.error = "Patient-context scopes require patient ID"
    /\ ~last.result.next

\* C12: a request whose verified token has no subject claim, or one that is
\* no client of the registry at the time of the request, is answered 401
\* "Invalid client ID" whatever its scopes are, downstream is not called and
\* nothing is attached; so it is for a client that was in the registry when
\* the token was issued and is not any more.
C12_UnknownClient ==
    (/\ LastIsVerifiedRequest
     /\ LET sub == BearerToken(last.request.header).payload.sub
        IN  sub = None \/ sub \notin DOMAIN ALLOWED_CLIENTS) =>
        /\ last.result.status = 401
        /\ last.result.error = "Invalid client ID"
        /\ ~last.result.next
        /\ last.result.client_id = None /\ last.result.scopes = <<>>

\* a token issued to a client of the registry is presented, unexpired, after
\* the client has left the registry, and is refused with 401
C12_Witness ==
    /\ LastIsVerifiedRequest
    /\ BearerToken(last.request.header) \in IssuedTokens
    /\ BearerToken(last.request.header).payload.sub \notin DOMAIN ALLOWED_CLIENTS
    /\ last.result.status = 401
    /\ last.result.error = "Invalid client ID"
    /\ ~last.result.next

\* C13: a request without Authorization header to a non-issuance path is
\* answered 401 "No authorization header provided"; neither
\* parse_auth_header nor verify_token is invoked, nor is downstream.
C13_MissingHeader ==
    (LastIsRequest /\ ~last.request.header.present) =>
        /\ last.result.status = 401
        /\ last.result.error = "No authorization header provided"
        /\ ~last.result.parsed /\ ~last.result.verified
        /\ ~last.result.next /\ ~last.result.raised

\* a request without header to a path other than the issuance endpoint was
\* answered 401
C13_Witness ==
    /\ LastIsRequest
    /\ last.request.path = OtherOAuthPath
    /\ ~last.request.header.present
    /\ last.result.status = 401
    /\ ~last.result.parsed

\* the header is there and does not start with "Bearer "
Malformed(h) == h.present /\ ~(h.scheme = "Bearer" /\ Len(h.creds) >= 1)

\* C14: a request to a non-issuance path whose Authorization header is
\* present but does not start with "Bearer " gets the answer a request
\* without header gets (401 "No authorization header provided"), which is
\* none of the answers to an invalid token, and verify_token is not invoked.
C14_MalformedAsMissing ==
    (LastIsRequest /\ Malformed(last.request.header)) =>
        /\ last.result.status = 401
        /\ last.result.error = "No authorization header provided"
        /\ last.result.error \notin VerifyFailureBodies
        /\ ~last.result.verified
        /\ ~last.result.next

\* C15: a request to the issuance endpoint's path is handed to downstream
\* whatever its Authorization header is, without parse_auth_header or
\* verify_token being invoked and with nothing attached to request.state; a
\* request to any other path reaches downstream only through verify_token.
C15_Bypass ==
    last.op = "dispatch" =>
        IF last.request.path = OAUTH_TOKEN_URL
        THEN /\ last.result.next
             /\ ~last.result.parsed /\ ~last.result.verified
             /\ last.result.client_id = None
             /\ last.result.scopes = <<>>
             /\ last.result.patient_id = None
        ELSE /\ last.result.next => (last.result.parsed /\ last.result.verified)
             /\ ~IsBearer(last.request.header) => ~last.result.next

\* a request to the issuance endpoint carrying a forged token reached
\* downstream
C15_Witness ==
    /\ last.op = "dispatch"
    /\ last.request.path = OAUTH_TOKEN_URL
    /\ IsBearer(last.request.header)
    /\ BearerToken(last.request.header) = WrongKeyToken
    /\ last.result.next
    /\ ~last.result.verified

(* --------------------------- the credential store ----------------------- *)
\* validate_client against the register_client calls made so far: it returns
\* true for the secret of the most recent call for the client, it ends as
\* wrongSecret(result) says for any other secret, it raises "Invalid client
\* ID" for a client never registered, and it leaves the registry as it was
ValidateAgainstLog(wrongSecret(_)) ==
    last.op = "validate_client" =>
        /\ oauth_clients = last.before
        /\ IF last.client_id \notin DOMAIN registerLog
           THEN /\ ~last.result.ok
                /\ last.result.error = "ClientValidationError"
                /\ last.result.reason = "Invalid client ID"
           ELSE IF last.client_secret = registerLog[last.client_id]
           THEN last.result.ok /\ last.result.value = TRUE
           ELSE wrongSecret(last.result)

RaisesError(result) == ~result.ok /\ result.error = "ClientValidationError"
ReturnsFalse(result) == result.ok /\ result.value = FALSE

\* C16: after any register calls, validate(client_id, secret) succeeds iff
\* secret is the one of the most recent register call for client_id; with any
\* other secret it fails with an error (InvalidSecret), for a client never
\* registered it fails with an error (ClientNotFound); it changes no state.
C16_ValidateLastWriteWins == ValidateAgainstLog(RaisesError)

\* what OAuthServer.validate_client does: as C16, but a wrong secret makes it
\* return false without an error
ValidateReturnsFalse == ValidateAgainstLog(ReturnsFalse)

(* ------------------------------ scope analysis -------------------------- *)
NonResourceScopes == {Openid, Profile, OfflineAccess, LaunchPatient}

\* what follows the 8 characters of "patient/"
PatientSuffix(scope) == SubSeq(scope, Len(PatientPrefix) + 1, Len(scope))

\* C17: for every list of scopes, analyze returns has_openid iff "openid"
\* occurs; as resource scopes the suffix after "patient/" of every scope with
\* that prefix and, verbatim, every other scope that is not "openid",
\* "profile", "offline_access" or "launch/patient"; and has_patient_context
\* iff some scope starts with "patient/" or "launch/patient" occurs. The two
\* examples: ["patient/Observation.read", "launch/patient", "openid"] gives
\* ({"Observation.read"}, true, true), ["hmcp:access"] gives
\* ({"hmcp:access"}, false, false).
C17_AnalyzeScopes ==
    last.op = "analyze_scopes" =>
        LET given == Range(last.scopes)
            prefixed == {x \in given : startswith(x, PatientPrefix)}
        IN  /\ last.result.has_openid <=> Openid \in given
            /\ last.result.resource_scopes =
                   {PatientSuffix(x) : x \in prefixed}
                   \cup ((given \ prefixed) \ NonResourceScopes)
            /\ last.result.has_patient_context
                   <=> (prefixed # {} \/ LaunchPatient \in given)
            /\ last.scopes = <<PatientObservationRead, LaunchPatient, Openid>> =>
                   last.result = [resource_scopes |-> {ObservationRead},
                                  has_patient_context |-> TRUE,
                                  has_openid |-> TRUE]
            /\ last.scopes = <<HmcpAccess>> =>
                   last.result = [resource_scopes |-> {HmcpAccess},
                                  has_patient_context |-> FALSE,
                                  has_openid |-> FALSE]

\* a list whose only sign of patient context is "launch/patient", next to
\* a resource scope and "openid", was analyzed
C17_Witness ==
    /\ last.op = "analyze_scopes"
    /\ last.scopes = <<HmcpAccess, LaunchPatient, Openid>>
    /\ last.result = [resource_scopes |-> {HmcpAccess},
                      has_patient_context |-> TRUE, has_openid |-> TRUE]

\* C18: for every list of scopes, requires_patient_context(scopes) is the
\* has_patient_context flag that analyze(scopes) returns.
C18_EntryPointsAgree ==
    /\ last.op = "analyze_scopes" =>
           last.result.has_patient_context = requires_patient_context(last.scopes)
    /\ last.op = "requires_patient_context" =>
           last.result = analyze_scopes(last.scopes).has_patient_context

\* requires_patient_context said yes to a list with "launch/patient" and no
\* scope starting with "patient/"
C18_Witness ==
    /\ last.op = "requires_patient_context"
    /\ LaunchPatient \in Range(last.scopes)
    /\ ~\E i \in DOMAIN last.scopes : startswith(last.scopes[i], PatientPrefix)
    /\ last.result = TRUE

(* --------------------------- the client-side cache ---------------------- *)
NotAuthenticated(result) ==
    /\ ~result.ok
    /\ result.error = "AuthenticationError"
    /\ result.reason = "Not authenticated"

\* get_auth_header against the set_token calls made so far: it fails with
\* "Not authenticated" while no set_token has returned or noToken holds,
\* otherwise it returns the header "Bearer <t>" for the access token t of the
\* most recent set_token that returned; it leaves the object as it was
AuthHeaderLaw(noToken) ==
    last.op = "get_auth_header" =>
        /\ oauth_client = last.before
        /\ IF ~setTokenLog.succeeded \/ noToken
           THEN NotAuthenticated(last.result)
           ELSE /\ last.result.ok
                /\ last.result.value =
                       [Authorization |->
                           Header("Bearer", <<setTokenLog.access_token>>)]

\* C19 as stated: auth_header fails with NotAuthenticated as long as no
\* set_token has succeeded, and after that returns {"Authorization":
\* "Bearer <t>"} for the access token t of the most recent successful
\* set_token; it never changes the cache.
C19_AuthHeaderAfterSet == AuthHeaderLaw(FALSE)

\* C19 as amended: auth_header also fails with NotAuthenticated when the
\* access token of the most recent successful set_token is null or the
\* empty string.
C19_AuthHeader == AuthHeaderLaw(~Truthy(setTokenLog.access_token))

\* after a set_token that failed, the header is the one for the token of
\* the successful set_token before it
C19_Witness ==
    /\ last.op = "get_auth_header"
    /\ "access_token" \notin DOMAIN oauth_client.token_response
    /\ oauth_client.token_response # NoDict
    /\ setTokenLog.succeeded
    /\ last.result.ok
    /\ last.result.value = [Authorization |-> Header("Bearer", <<"tokB">>)]

\* C20: set_token with a response without access_token fails and leaves the
\* cache unchanged: token response, access token, ID token and patient id
\* are what they were, and a following auth_header behaves as before.
C20_FailedSetKeepsCache ==
    (last.op = "set_token" /\ "access_token" \notin DOMAIN last.token_response) =>
        /\ ~last.ok
        /\ oauth_client.token_response = last.before.token_response
        /\ oauth_client.access_token = last.before.access_token
        /\ oauth_client.id_token = last.before.id_token
        /\ oauth_client.patient_id = last.before.patient_id
        /\ get_auth_header(oauth_client) = last.header_before

(* ------------------------ the unimplemented flows ----------------------- *)
UnimplementedEntryPoints ==
    {"create_authorization_code", "exchange_code_for_token", "create_id_token"}

\* C21: create_authorization_code, exchange_code_for_token and
\* create_id_token fail as not implemented for every input in every state and
\* change nothing: the authorization-code store is empty in every reachable
\* state, and no token is issued through them.
C21_NotImplemented ==
    /\ auth_codes = << >>
    /\ last.op \in UnimplementedEntryPoints =>
           /\ ~last.result.ok
           /\ last.result.error = "NotImplementedError"
           /\ ServerState = last.before

\* a client registered with OAuthServer and holding an issued token asks for
\* an authorization code and is refused
C21_Witness ==
    /\ last.op = "create_authorization_code"
    /\ last.client_id \in DOMAIN oauth_clients
    /\ \E r \in issued : r.client_id = last.client_id
    /\ last.result.error = "NotImplementedError"

(* ------------------------------- the log ------------------------------- *)
\* the record shows no client secret, no signing key and no whole token
ShowsNoSecret(rec) ==
    rec.client_secrets = {} /\ rec.signing_keys = {} /\ rec.tokens = {}

\* C22: no log record written by registration, issuance, verification or the
\* middleware contains a raw client secret, the signing secret or a full
\* token string.
C22_NoSecretsInLogs == \A rec \in log : ShowsNoSecret(rec)

\* the same for the records of level INFO and above only
C22_NoSecretsAtInfoLevel ==
    \A rec \in log : rec.level # "DEBUG" => ShowsNoSecret(rec)

(* ------------------------ the order of the steps ----------------------- *)
\* the answer to a request at time t whose first failing step is, in this
\* order: header extraction, token verification, client registration,
\* required scopes, patient context
FirstFailingStep(h, t) ==
    IF ~h.present \/ h = Header("", <<>>)
    THEN [fails |-> TRUE, status |-> 401, error |-> "No authorization header provided"]
    ELSE IF Malformed(h)
    THEN [fails |-> TRUE, status |-> 401,
          error |-> "Authentication failed: Invalid Authorization header"]
    ELSE LET token == BearerToken(h)
             failure == FirstFailure(token, blacklisted_tokens["middleware"], t,
                                     RevokedReason)
         IN
    IF failure # None
    THEN [fails |-> TRUE, status |-> 401, error |-> "Authentication failed: " \o failure]
    ELSE IF token.payload.sub \notin DOMAIN ALLOWED_CLIENTS
    THEN [fails |-> TRUE, status |-> 401, error |-> "Invalid client ID"]
    ELSE IF MissingRequiredScope(token)
    THEN [fails |-> TRUE, status |-> 403, error |-> "Insufficient scope"]
    ELSE IF LacksPatientContext(token)
    THEN [fails |-> TRUE, status |-> 403, error |-> "Patient-context scopes require patient ID"]
    ELSE [fails |-> FALSE]

C23_WitnessUnknownClient ==
    /\ LastIsVerifiedRequest
    /\ BearerToken(last.request.header).payload.sub = "ghost"
    /\ last.result.error = "Invalid client ID"

(* --------------------- issued scopes and patient field ------------------ *)
\* the scopes on record for a client: those of its ALLOWED_CLIENTS entry and
\* the allowed_scopes register_client stored for it
AllowedScopes(client_id) ==
    (IF client_id \in DOMAIN ALLOWED_CLIENTS
        /\ "scopes" \in DOMAIN ALLOWED_CLIENTS[client_id]
     THEN Range(ALLOWED_CLIENTS[client_id].scopes) ELSE {})
    \cup (IF client_id \in DOMAIN oauth_clients
          THEN Range(oauth_clients[client_id].allowed_scopes) ELSE {})

\* C24: every issued token carries only scopes allowed to its client: the
\* words of its scope claim are a subset of the client's allowed scopes.
C24_IssuedScopesAllowed ==
    \A r \in issued :
        Range(split(r.token.payload.scope)) \subseteq AllowedScopes(r.client_id)

\* C26: for every create_token that succeeds, the response has a patient
\* field if and only if the claims of its access_token have a patient
\* claim, and then with the same value.
C26_ResponseAgreesWithToken ==
    (last.op = "create_token" /\ last.result.ok) =>
        last.result.patient = last.result.access_token.payload.patient

(* -------------------- patient context of allowed requests --------------- *)
\* C25: every request let through whose token scopes require patient
\* context according to requires_patient_context (a scope starts with
\* "patient/" or "launch/patient" is among them) has a patient_id attached
\* to request.state.
C25_AllowedHasPatient ==
    (/\ LastIsBearerRequest
     /\ last.result.next
     /\ requires_patient_context(
            split(BearerToken(last.request.header).payload.scope))) =>
        last.result.patient_id # None

(* ------------------------- the downstream handler ----------------------- *)
\* C28: once a request has passed every step, the middleware's result is
\* the downstream handler's own: its response when it returns, its error
\* when it raises; never a 401 "Authentication failed".
C28_DownstreamOutcome ==
    (LastIsRequest /\ last.result.next) =>
        IF last.request.downstream = "return"
        THEN last.result.status = 200 /\ last.result.error = None
        ELSE last.result.raised

(* ------------------------ the cache after set_token --------------------- *)
\* C27: after a successful set_token the cache's patient id and ID token
\* are those of that token response: None if the response has no patient
\* field, None if it has no id_token field.
C27_CacheFollowsLatest ==
    (last.op = "set_token" /\ last.ok) =>
        /\ oauth_client.patient_id =
               IF "patient" \in DOMAIN last.token_response
               THEN last.token_response.patient ELSE None
        /\ oauth_client.id_token =
               IF "id_token" \in DOMAIN last.token_response
               THEN last.token_response.id_token ELSE None

====
